---- MODULE Spec2Model ----
(***************************************************************************)
(* Model of the document question-answering service                        *)
(* (src/main.py, src/utils/document_handler.py, src/utils/pdf_handler.py). *)
(*                                                                         *)
(* The service is one uvicorn process (src/start_app.py:70) whose request  *)
(* handlers are all `async def`: they run on one event loop and give up    *)
(* control only at an `await`.  The only await in a handler body is        *)
(* `await file.read()` (src/main.py:67), so an upload is two steps         *)
(* (UploadBegin, UploadFinish) and every other handler is one step.        *)
(*                                                                         *)
(* Text is a sequence of tokens; a token is a whitespace character or a    *)
(* run of non-whitespace characters.  A value that may be Python's None is *)
(* a sequence of length 0 (None) or 1 (the value).                         *)
(*                                                                         *)
(* The launcher (src/start_app.py, AppLauncher) is a process of its own,   *)
(* modelled by the variable launcher and the specification SpecLauncher.   *)
(***************************************************************************)
EXTENDS Naturals, Integers, Sequences, FiniteSets, TLC

VARIABLES doc_store, reading, nuploads, last, turns, indexes, launcher

vars == <<doc_store, reading, nuploads, last, turns, indexes, launcher>>

----------------------------------------------------------------------------
(* Bounds *)

MaxUploads == 2
MaxInflight == 1
MaxTurns == 2
MaxLines == 4
MaxBytes == 3
MaxPolls == 3

----------------------------------------------------------------------------
(* Optional values and text *)

None == <<>>
Some(v) == <<v>>

SP == " "
NL == "\n"
WS == {SP, NL}

RECURSIVE LStrip(_)
LStrip(s) == IF s = <<>> THEN s
             ELSE IF Head(s) \in WS THEN LStrip(Tail(s)) ELSE s

RECURSIVE RStrip(_)
RStrip(s) == IF s = <<>> THEN s
             ELSE IF s[Len(s)] \in WS THEN RStrip(SubSeq(s, 1, Len(s) - 1)) ELSE s

\* str.strip()
Strip(s) == RStrip(LStrip(s))

\* A forgotten strip(): only the empty string counts as blank.
IsBlank_NoStrip(s) == s = <<>>

\* `not s or not s.strip()`
IsBlank(s) == (s = <<>>) \/ (Strip(s) = <<>>)

----------------------------------------------------------------------------
(* Uploaded files.  A filename is a sequence of tokens, "." being the dot. *)
(* The bytes are described by what the parsing libraries make of them:     *)
(* kind is the real format of the bytes, blocks the text they hold (PDF    *)
(* pages, DOCX paragraphs, the text of a text file).                       *)

MAX_FILE_SIZE == 5 * 1024 * 1024

EXT_PDF == <<".", "pdf">>
EXT_TXT == <<".", "txt">>
EXT_DOC == <<".", "doc">>
EXT_DOCX == <<".", "docx">>
SUPPORTED_EXTENSIONS == {EXT_PDF, EXT_TXT, EXT_DOC, EXT_DOCX}

LowerTok(t) == CASE t = "PDF" -> "pdf"
                 [] t = "TXT" -> "txt"
                 [] t = "DOC" -> "doc"
                 [] t = "DOCX" -> "docx"
                 [] t = "EXE" -> "exe"
                 [] OTHER -> t

UpperTok(t) == CASE t = "pdf" -> "PDF"
                 [] t = "txt" -> "TXT"
                 [] t = "doc" -> "DOC"
                 [] t = "docx" -> "DOCX"
                 [] t = "exe" -> "EXE"
                 [] OTHER -> t

\* str.lower(), str.upper()
Lower(s) == [i \in 1..Len(s) |-> LowerTok(s[i])]
Upper(s) == [i \in 1..Len(s) |-> UpperTok(s[i])]

\* os.path.splitext(name)[1]: from the last dot to the end, unless only dots
\* come before it.
SplitExt(name) ==
    LET dots == {i \in 1..Len(name) : name[i] = "."}
    IN IF dots = {} THEN <<>>
       ELSE LET i == CHOOSE d \in dots : \A e \in dots : e <= d
            IN IF \E j \in 1..(i - 1) : name[j] /= "."
               THEN SubSeq(name, i, Len(name))
               ELSE <<>>

T_CATS == <<"Hello", SP, "cats">>
T_DOGS == <<"About", SP, "dogs", NL>>
T_BLANK == <<SP, NL>>
T_GARBAGE == <<"%PDF-1.4">>

Bytes(size, kind, blocks) == [size |-> size, kind |-> kind, blocks |-> blocks]

File(filename, bytes) == [filename |-> filename, bytes |-> bytes]

Files ==
    { File(<<"a", ".", "pdf">>, Bytes(3, "pdf", <<T_CATS, T_BLANK>>)),
      File(<<"b", ".", "TXT">>, Bytes(2, "text", <<T_DOGS>>)),
      File(<<"d", ".", "doc">>, Bytes(2, "doc", <<T_CATS>>)),
      File(<<"e", ".", "exe">>, Bytes(2, "junk", <<>>)),
      File(<<>>, Bytes(2, "text", <<T_CATS>>)),
      File(<<"big", ".", "pdf">>, Bytes(MAX_FILE_SIZE + 1, "pdf", <<T_CATS>>)) }

\* The uploads of Files and, on top of them: documents of each format whose
\* text is blank or missing, a DOCX with text, a PDF of no page, a file of
\* exactly MAX_FILE_SIZE bytes, a name without an extension, a DOCX archive
\* named .DOC and an oversized .doc.
UploadFiles ==
    Files \cup
    { File(<<"blank", ".", "pdf">>, Bytes(2, "pdf", <<T_BLANK, <<>>>>)),
      File(<<"blank", ".", "txt">>, Bytes(2, "text", <<T_BLANK>>)),
      File(<<"blank", ".", "docx">>, Bytes(2, "docx", <<T_BLANK, <<>>>>)),
      File(<<"nopage", ".", "pdf">>, Bytes(2, "pdf", <<>>)),
      File(<<"empty", ".", "txt">>, Bytes(0, "text", <<>>)),
      File(<<"c", ".", "DOCX">>, Bytes(2, "docx", <<T_CATS, T_DOGS>>)),
      File(<<"max", ".", "txt">>, Bytes(MAX_FILE_SIZE, "text", <<T_DOGS>>)),
      File(<<"noext">>, Bytes(2, "text", <<T_CATS>>)),
      File(<<"x", ".", "DOC">>, Bytes(2, "docx", <<T_CATS>>)),
      File(<<"big", ".", "doc">>, Bytes(MAX_FILE_SIZE + 1, "doc", <<T_CATS>>)) }

----------------------------------------------------------------------------
(* process_document and what it calls *)

\* The messages process_document raises for a document without text
\* (document_handler.py:74, 91, 101).
EMPTY_CONTENT == {"No text content found in TXT file",
                  "No text content found in document"}

\* temp: the temporary file of the call when it returns ("none": none was
\* created, "deleted", or "exists").
Raise(msg) == [ok |-> FALSE, err |-> msg, db |-> None, docs |-> <<>>, temp |-> "none"]

RECURSIVE JoinNL(_)
\* '\n'.join(paragraphs)
JoinNL(ps) == IF ps = <<>> THEN <<>>
              ELSE IF Len(ps) = 1 THEN ps[1]
              ELSE ps[1] \o <<NL>> \o JoinNL(Tail(ps))

\* docx.Document(...) fails on bytes that are no DOCX archive.
extract_text_from_docx(bytes) ==
    IF bytes.kind = "docx"
    THEN [ok |-> TRUE, text |-> JoinNL(bytes.blocks), err |-> ""]
    ELSE [ok |-> FALSE, text |-> <<>>, err |-> "Failed to extract text from DOCX"]

DOC_NOT_SUPPORTED == "DOC files are not supported yet. Please convert to DOCX format."

\* A .doc file read as if it were a DOCX archive.
extract_text_from_doc_AsDocx(bytes) == extract_text_from_docx(bytes)

\* document_handler.py:85-88: no extraction exists for .doc, the branch raises.
extract_text_from_doc(bytes) ==
    [ok |-> FALSE, text |-> <<>>, err |-> DOC_NOT_SUPPORTED]

\* The byte values raw byte strings are made of: "A"; 0xC3 and 0xE9, the
\* leads of a 2-byte and of a 3-byte UTF-8 sequence; 0xA9 and 0x81, two
\* continuation bytes, the second undefined in cp1252.
BYTES == {65, 195, 233, 169, 129}

IsContinuation(b) == b >= 128 /\ b <= 191

RECURSIVE DecodeUtf8(_)
\* bytes.decode('utf-8') on a sequence of byte values: the sequence of code
\* points, or None on UnicodeDecodeError.  Leads 0xC2..0xDF take one
\* continuation byte and leads 0xE1..0xEC two.
DecodeUtf8(bs) ==
    IF bs = <<>> THEN Some(<<>>)
    ELSE LET b == Head(bs)
             n == IF b < 128 THEN 1
                  ELSE IF b >= 194 /\ b <= 223 THEN 2
                  ELSE IF b >= 225 /\ b <= 236 THEN 3
                  ELSE 0
         IN IF n = 0 \/ Len(bs) < n
                \/ \E k \in 2..n : ~IsContinuation(bs[k])
            THEN None
            ELSE LET cp == IF n = 1 THEN b
                           ELSE IF n = 2 THEN (b - 192) * 64 + (bs[2] - 128)
                           ELSE (b - 224) * 4096 + (bs[2] - 128) * 64 + (bs[3] - 128)
                     rest == DecodeUtf8(SubSeq(bs, n + 1, Len(bs)))
                 IN IF rest = None THEN None ELSE Some(<<cp>> \o rest[1])

\* bytes.decode('latin-1'): every byte is the code point of its value.
DecodeLatin1(bs) == Some(bs)

\* The byte values the cp1252 codec of Python leaves undefined.
CP1252_UNDEFINED == {129, 141, 143, 144, 157}

\* bytes.decode('cp1252') on the values of BYTES: as latin-1 outside
\* 0x80..0x9F, UnicodeDecodeError on an undefined value.
DecodeCp1252(bs) ==
    IF \E k \in 1..Len(bs) : bs[k] \in CP1252_UNDEFINED THEN None ELSE Some(bs)

DecodeRaw(bs, encoding) ==
    IF encoding = "utf-8" THEN DecodeUtf8(bs)
    ELSE IF encoding = "latin-1" THEN DecodeLatin1(bs)
    ELSE DecodeCp1252(bs)

\* bytes.decode(encoding): None on UnicodeDecodeError.  Raw bytes (kind "raw",
\* one block of byte values) are decoded value by value.  Of the other kinds,
\* the bytes of a text file and the empty byte string are valid utf-8 and
\* binary formats are not; latin-1 maps every byte to a character; cp1252
\* leaves some bytes undefined.
Decode(bytes, encoding) ==
    IF bytes.kind = "raw" THEN DecodeRaw(bytes.blocks[1], encoding)
    ELSE IF bytes.size = 0 THEN Some(<<>>)
    ELSE IF encoding = "utf-8"
    THEN IF bytes.kind = "text" THEN Some(JoinNL(bytes.blocks)) ELSE None
    ELSE IF encoding = "latin-1"
    THEN IF bytes.kind = "text" THEN Some(JoinNL(bytes.blocks)) ELSE Some(T_GARBAGE)
    ELSE None

\* The encodings with latin-1, which decodes everything, tried first.
ENCODINGS_Latin1First == <<"latin-1", "utf-8", "cp1252">>

ENCODINGS == <<"utf-8", "latin-1", "cp1252">>

RECURSIVE TryEncodings(_, _)
\* The loop of extract_text_from_txt: the first encoding that decodes wins.
TryEncodings(bytes, encodings) ==
    IF encodings = <<>>
    THEN [ok |-> FALSE, text |-> <<>>,
          err |-> "Failed to extract text from TXT: Could not decode text file with any supported encoding"]
    ELSE LET t == Decode(bytes, Head(encodings))
         IN IF t /= None THEN [ok |-> TRUE, text |-> t[1], err |-> ""]
            ELSE TryEncodings(bytes, Tail(encodings))

extract_text_from_txt(bytes) == TryEncodings(bytes, ENCODINGS)

\* PyPDFLoader(temp_path).load(): one document per page.
PdfLoad(bytes) ==
    IF bytes.kind = "pdf"
    THEN [ok |-> TRUE, docs |-> bytes.blocks, err |-> ""]
    ELSE [ok |-> FALSE, docs |-> <<>>, err |-> "pdf parse error"]

RECURSIVE SplitDocuments(_)
\* RecursiveCharacterTextSplitter(1000, 100).split_documents(docs) on blocks
\* shorter than a chunk: one stripped chunk per block, none for a blank block.
SplitDocuments(docs) ==
    IF docs = <<>> THEN <<>>
    ELSE IF Strip(Head(docs)) = <<>> THEN SplitDocuments(Tail(docs))
    ELSE <<Strip(Head(docs))>> \o SplitDocuments(Tail(docs))

\* FAISS.from_documents(chunks, embeddings): raises when the embedding call
\* fails and when there is no chunk (no vector to size the index by).
FaissFromDocuments(chunks, embedOk, id) ==
    IF embedOk /\ chunks /= <<>>
    THEN Some([id |-> id, chunks |-> chunks])
    ELSE None

\* The part of process_document after the format-specific extraction.
IndexDocs(docs, env, id) ==
    IF docs = <<>> THEN Raise("No text content found in document")
    ELSE IF ~env.split THEN Raise("Failed to split text")
    ELSE LET db == FaissFromDocuments(SplitDocuments(docs), env.embed, id)
         IN IF db = None THEN Raise("Failed to create vector store")
            ELSE [ok |-> TRUE, err |-> "", db |-> db[1], docs |-> docs, temp |-> "none"]

\* document_handler.py:127-134: the file is unlinked when temp_path is set and
\* the file exists; a failing unlink is logged and the file stays.
CleanUp(temp_path_set, disk) ==
    IF temp_path_set /\ disk /= "unlink_fails" THEN "deleted" ELSE "exists"

\* env.disk: "write_fails" when temp_file.write or temp_file.close raises
\* (temp_path is assigned after them, line 65), "unlink_fails" when os.unlink
\* raises, else "ok".
process_document(file_bytes, file_extension, env, id) ==
    LET ext == Lower(file_extension)
    IN IF ext = EXT_PDF
       THEN IF env.disk = "write_fails"
            THEN [Raise("temporary file write error") EXCEPT
                     !.temp = CleanUp(FALSE, env.disk)]
            ELSE LET l == PdfLoad(file_bytes)
                     r == IF ~l.ok THEN Raise(l.err) ELSE IndexDocs(l.docs, env, id)
                 IN [r EXCEPT !.temp = CleanUp(TRUE, env.disk)]
       ELSE IF ext = EXT_TXT
       THEN LET t == extract_text_from_txt(file_bytes)
            IN IF ~t.ok THEN Raise(t.err)
               ELSE IF Strip(t.text) = <<>>
               THEN Raise("No text content found in TXT file")
               ELSE IndexDocs(<<t.text>>, env, id)
       ELSE IF ext \in {EXT_DOC, EXT_DOCX}
       THEN LET t == IF ext = EXT_DOCX THEN extract_text_from_docx(file_bytes)
                     ELSE extract_text_from_doc(file_bytes)
            IN IF ~t.ok THEN Raise(t.err)
               ELSE IF Strip(t.text) = <<>>
               THEN Raise("No text content found in document")
               ELSE IndexDocs(<<t.text>>, env, id)
       ELSE Raise("Unsupported file type")

S_OK == <<"A", SP, "summary">>
S_NO_CONTENT == <<"No content available to summarize.">>
S_FAILED == <<"Could not generate summary: ", "backend error">>

\* A failure of the backend swallowed into an empty summary.
summarize_document_Silent(docs, outcome) ==
    IF docs = <<>> THEN S_NO_CONTENT
    ELSE IF outcome = None THEN <<>>
    ELSE outcome[1]

\* outcome: None when the summarization backend fails, else its text.
summarize_document(docs, outcome) ==
    IF docs = <<>> THEN S_NO_CONTENT
    ELSE IF outcome = None THEN S_FAILED
    ELSE outcome[1]

\* A fresh ConversationBufferMemory and a chain over db.as_retriever();
\* None when ChatOpenAI / from_llm raises.
create_conversation_chain(db, chainOk) ==
    IF chainOk THEN Some([retriever |-> db, memory |-> <<>>]) ELSE None

----------------------------------------------------------------------------
(* The store (src/main.py doc_store) and the upload handler *)

EmptyStore == [db |-> None, conversation_chain |-> None, summary |-> None,
               filename |-> None, file_type |-> None]

\* What a handler did: the HTTP status and detail, the store it leaves, the
\* response content, and the external calls it made.  For an upload: whether
\* process_document returned an index, whether the summarization backend
\* failed, and the temporary file when the handler returns.  For the suggested
\* questions: the index given and what the retriever and the backend did.
Outcome == [status |-> 0, detail |-> "", store |-> EmptyStore,
            answer |-> <<>>, summary |-> <<>>, filename |-> <<>>,
            file_type |-> <<>>, messages |-> <<>>, flag |-> FALSE,
            calls |-> <<>>, retrFrom |-> 0, retrieved |-> None,
            history |-> <<>>, genFailed |-> FALSE,
            indexed |-> FALSE, sumFailed |-> FALSE, temp |-> "none",
            questions |-> <<>>, index |-> None, backend |-> None]

HttpError(store, status, detail) ==
    [Outcome EXCEPT !.status = status, !.detail = detail, !.store = store]

\* main.py:90-94 without the conversation_chain assignment.
StoreEverything_NoChain(store, db, chain, summary, filename, file_type) ==
    [store EXCEPT !.db = Some(db), !.summary = Some(summary),
                  !.filename = Some(filename), !.file_type = Some(file_type)]

\* main.py:90-94 with the turns of the old conversation carried into the new one.
StoreEverything_KeepMemory(store, db, chain, summary, filename, file_type) ==
    [db |-> Some(db),
     conversation_chain |->
         IF store.conversation_chain = None THEN Some(chain)
         ELSE Some([chain EXCEPT !.memory = store.conversation_chain[1].memory]),
     summary |-> Some(summary),
     filename |-> Some(filename), file_type |-> Some(file_type)]

\* main.py:90-94 with a summary that is set only when none is stored yet.
StoreEverything_KeepSummary(store, db, chain, summary, filename, file_type) ==
    [db |-> Some(db), conversation_chain |-> Some(chain),
     summary |-> IF store.summary = None THEN Some(summary) ELSE store.summary,
     filename |-> Some(filename), file_type |-> Some(file_type)]

\* main.py:90-94 with a filename that is set only when none is stored yet.
StoreEverything_KeepFilename(store, db, chain, summary, filename, file_type) ==
    [db |-> Some(db), conversation_chain |-> Some(chain), summary |-> Some(summary),
     filename |-> IF store.filename = None THEN Some(filename) ELSE store.filename,
     file_type |-> Some(file_type)]

\* main.py:90-94
StoreEverything(store, db, chain, summary, filename, file_type) ==
    [db |-> Some(db), conversation_chain |-> Some(chain), summary |-> Some(summary),
     filename |-> Some(filename), file_type |-> Some(file_type)]

\* main.py:51-64, up to the await of file.read().
upload_validate(store, file) ==
    IF file.filename = <<>> THEN HttpError(store, 400, "No filename provided")
    ELSE IF SplitExt(Lower(file.filename)) \notin SUPPORTED_EXTENSIONS
    THEN HttpError(store, 400, "Unsupported file type")
    ELSE [Outcome EXCEPT !.status = 100, !.store = store]

\* main.py:67-117 with the index stored before the conversation chain exists.
upload_finish_StoreEarly(store, file, env, id) ==
    LET ext == SplitExt(Lower(file.filename))
        p == process_document(file.bytes, ext, env, id)
    IN IF file.bytes.size > MAX_FILE_SIZE
       THEN HttpError(store, 413, "File size exceeds the maximum limit of 5MB")
       ELSE IF ~p.ok THEN HttpError(store, 500, p.err)
       ELSE LET summary == summarize_document(p.docs, env.summary)
                chain == create_conversation_chain(p.db, env.chain)
            IN IF chain = None
               THEN HttpError([store EXCEPT !.db = Some(p.db)], 500,
                              "Error creating conversation chain")
               ELSE [Outcome EXCEPT
                       !.status = 200,
                       !.store = StoreEverything(store, p.db, chain[1], summary,
                                                 file.filename, Upper(ext)),
                       !.filename = file.filename, !.file_type = Upper(ext),
                       !.summary = summary]

\* main.py:70 with >= for >.
TooLarge_GE(file_bytes) == file_bytes.size >= MAX_FILE_SIZE

\* main.py:70
TooLarge(file_bytes) == file_bytes.size > MAX_FILE_SIZE

\* main.py:109-117 with the store reset when an upload fails.
UploadError_Reset(store, status, detail) == HttpError(EmptyStore, status, detail)

\* main.py:109-117: the exception handlers of upload_file leave the store alone.
UploadError(store, status, detail) == HttpError(store, status, detail)

CORE_CALLS == <<"process_document", "summarize_document", "create_conversation_chain">>

\* main.py:67-117, from the return of file.read() to the response.
upload_finish(store, file, env, id) ==
    LET ext == SplitExt(Lower(file.filename))
        p == process_document(file.bytes, ext, env, id)
    IN IF TooLarge(file.bytes)
       THEN UploadError(store, 413, "File size exceeds the maximum limit of 5MB")
       ELSE IF ~p.ok
       THEN [UploadError(store, 500, p.err) EXCEPT
                !.calls = <<"process_document">>, !.temp = p.temp,
                !.backend = Some(env)]
       ELSE LET summary == summarize_document(p.docs, env.summary)
                chain == create_conversation_chain(p.db, env.chain)
            IN IF chain = None
               THEN [UploadError(store, 500, "Error creating conversation chain") EXCEPT
                        !.calls = CORE_CALLS, !.temp = p.temp, !.indexed = TRUE,
                        !.sumFailed = (env.summary = None), !.backend = Some(env)]
               ELSE [Outcome EXCEPT
                       !.status = 200,
                       !.store = StoreEverything(store, p.db, chain[1], summary,
                                                 file.filename, Upper(ext)),
                       !.filename = file.filename, !.file_type = Upper(ext),
                       !.summary = summary,
                       !.calls = CORE_CALLS, !.temp = p.temp, !.indexed = TRUE,
                       !.sumFailed = (env.summary = None), !.backend = Some(env)]

SummaryOutcomes == {None, Some(S_OK), Some(<<>>)}

\* What the external services do during one upload: every service works (with
\* each outcome of the summarization backend), or exactly one of them fails.
\* The summarization backend may also fail in an upload whose chain creation
\* fails, and the disk may fail under the temporary file of a PDF.
UploadEnv(split, embed, summary, chain, disk) ==
    [split |-> split, embed |-> embed, summary |-> summary, chain |-> chain,
     disk |-> disk]

UploadEnvs ==
    {UploadEnv(TRUE, TRUE, o, TRUE, "ok") : o \in SummaryOutcomes}
    \cup {UploadEnv(FALSE, TRUE, Some(S_OK), TRUE, "ok"),
          UploadEnv(TRUE, FALSE, Some(S_OK), TRUE, "ok"),
          UploadEnv(TRUE, TRUE, Some(S_OK), FALSE, "ok"),
          UploadEnv(TRUE, TRUE, None, FALSE, "ok"),
          UploadEnv(TRUE, TRUE, Some(S_OK), TRUE, "write_fails"),
          UploadEnv(TRUE, TRUE, Some(S_OK), TRUE, "unlink_fails")}

----------------------------------------------------------------------------
(* Asking *)

A_NO_RELEVANT ==
    <<"I couldn't find any relevant information in the document to answer your question.">>
A_NO_MEANINGFUL == <<"I couldn't generate a meaningful answer to your question.">>

Human(text) == [type |-> "human", content |-> text]
AI(text) == [type |-> "ai", content |-> text]

\* What ask_question did: raised or returned `answer`; the memory of the chain
\* afterwards; the external calls made, in order; the index retrieved from and
\* the chunks retrieved (None: no retrieval was made); the history the
\* generation backend was given; whether a generation call failed.
AskResult == [raised |-> FALSE, err |-> "", answer |-> <<>>, memory |-> <<>>,
              calls |-> <<>>, retrFrom |-> 0, retrieved |-> None,
              history |-> <<>>, genFailed |-> FALSE]

\* retriever.get_relevant_documents(q): the retriever is an external
\* collaborator whose result is a list that may be empty (the code tests
\* `if not relevant_docs`); the indexes of the model hold fewer chunks than the
\* retriever's k, so a non-empty result is the whole index.
Retrieve(index, outcome) == IF outcome = "top" THEN index.chunks ELSE <<>>

\* The chain call with the turn saved as soon as the question is known.
ConvChainCall_SaveFirst(chain, question, env) ==
    LET hist == chain.memory
        base == [AskResult EXCEPT !.memory = hist \o <<Human(question)>>,
                                  !.history = hist]
        docs == Retrieve(chain.retriever, env.retr)
    IN IF env.retr = "error"
       THEN [base EXCEPT !.raised = TRUE, !.err = "embedding error",
                         !.calls = <<"retrieve">>,
                         !.retrFrom = chain.retriever.id]
       ELSE IF env.gen = None
       THEN [base EXCEPT !.raised = TRUE, !.err = "generation error",
                         !.genFailed = TRUE,
                         !.calls = <<"retrieve", "generate">>,
                         !.retrFrom = chain.retriever.id,
                         !.retrieved = Some(docs)]
       ELSE [base EXCEPT !.answer = env.gen[1],
                         !.memory = hist \o <<Human(question), AI(env.gen[1])>>,
                         !.calls = <<"retrieve", "generate">>,
                         !.retrFrom = chain.retriever.id,
                         !.retrieved = Some(docs)]

\* The memory holding the last turn only.
SaveContext_Replace(hist, question, answer) == <<Human(question), AI(answer)>>

\* ConversationBufferMemory.save_context: the turn is appended to the messages.
SaveContext(hist, question, answer) == hist \o <<Human(question), AI(answer)>>

\* conversation_chain({"question": question}) of a ConversationalRetrievalChain
\* built as in create_conversation_chain (no response_if_no_docs_found): with
\* a non-empty history the question is first condensed by the generation
\* backend; the chain's retriever is queried; the backend generates from the
\* chunks, whatever their number; the turn is saved only when all succeeded.
ConvChainCall(chain, question, env) ==
    LET hist == chain.memory
        pre == IF hist = <<>> THEN <<>> ELSE <<"generate">>
        base == [AskResult EXCEPT !.memory = hist, !.history = hist]
        docs == Retrieve(chain.retriever, env.retr)
    IN IF hist /= <<>> /\ ~env.condense
       THEN [base EXCEPT !.raised = TRUE, !.err = "generation error",
                         !.genFailed = TRUE, !.calls = pre]
       ELSE IF env.retr = "error"
       THEN [base EXCEPT !.raised = TRUE, !.err = "embedding error",
                         !.calls = pre \o <<"retrieve">>,
                         !.retrFrom = chain.retriever.id]
       ELSE IF env.gen = None
       THEN [base EXCEPT !.raised = TRUE, !.err = "generation error",
                         !.genFailed = TRUE,
                         !.calls = pre \o <<"retrieve", "generate">>,
                         !.retrFrom = chain.retriever.id,
                         !.retrieved = Some(docs)]
       ELSE [base EXCEPT !.answer = env.gen[1],
                         !.memory = SaveContext(hist, question, env.gen[1]),
                         !.calls = pre \o <<"retrieve", "generate">>,
                         !.retrFrom = chain.retriever.id,
                         !.retrieved = Some(docs)]

\* document_handler.py:201-217, the path without a conversation chain.
SimpleQA(db, question, env) ==
    LET docs == Retrieve(db, env.retr)
        base == [AskResult EXCEPT !.retrFrom = db.id]
    IN IF env.retr = "error"
       THEN [base EXCEPT !.raised = TRUE, !.err = "embedding error",
                         !.calls = <<"retrieve">>]
       ELSE IF docs = <<>>
       THEN [base EXCEPT !.answer = A_NO_RELEVANT, !.calls = <<"retrieve">>,
                         !.retrieved = Some(docs)]
       ELSE IF env.gen = None
       THEN [base EXCEPT !.raised = TRUE, !.err = "generation error",
                         !.genFailed = TRUE,
                         !.calls = <<"retrieve", "generate">>,
                         !.retrieved = Some(docs)]
       ELSE [base EXCEPT !.answer = IF IsBlank(env.gen[1]) THEN A_NO_MEANINGFUL
                                    ELSE env.gen[1],
                         !.calls = <<"retrieve", "generate">>,
                         !.retrieved = Some(docs)]

\* db and conversation_chain are optional values.
ask_question(db, question, conversation_chain, env) ==
    LET mem == IF conversation_chain = None THEN <<>>
               ELSE conversation_chain[1].memory
    IN IF db = None
       THEN [AskResult EXCEPT !.raised = TRUE, !.err = "No vector database provided",
                              !.memory = mem]
       ELSE IF IsBlank(question)
       THEN [AskResult EXCEPT !.raised = TRUE, !.err = "Question cannot be empty",
                              !.memory = mem]
       ELSE IF conversation_chain /= None
       THEN ConvChainCall(conversation_chain[1], question, env)
       ELSE SimpleQA(db[1], question, env)

\* The memory of the store's chain after the call (the chain object is shared
\* by reference between the store and the handler).
WithMemory(store, memory) ==
    IF store.conversation_chain = None THEN store
    ELSE [store EXCEPT !.conversation_chain =
              Some([store.conversation_chain[1] EXCEPT !.memory = memory])]

\* main.py:119-162
ask(store, question, env) ==
    IF IsBlank(question) THEN HttpError(store, 400, "Question cannot be empty")
    ELSE LET db == store.db
             conversation_chain == store.conversation_chain
         IN IF db = None
            THEN HttpError(store, 404, "No document loaded. Please upload a document first.")
            ELSE LET r == ask_question(db, question, conversation_chain, env)
                     after == WithMemory(store, r.memory)
                 IN [Outcome EXCEPT
                       !.status = IF r.raised THEN 500 ELSE 200,
                       !.detail = r.err,
                       !.store = after,
                       !.answer = r.answer,
                       !.calls = r.calls,
                       !.retrFrom = r.retrFrom,
                       !.retrieved = r.retrieved,
                       !.history = r.history,
                       !.genFailed = r.genFailed]

Questions == {<<>>, <<SP, NL>>, <<SP, "why">>}

Answers == {<<"yes">>, <<SP>>}

\* What the external services do during one ask: the condensing call fails;
\* the retrieval fails; or the retrieval returns no chunk or the top chunks and
\* the generation fails or returns an answer.
AskEnv(condense, retr, gen) == [condense |-> condense, retr |-> retr, gen |-> gen]

AskEnvs ==
    {AskEnv(FALSE, "top", None), AskEnv(TRUE, "error", None)}
    \cup {AskEnv(TRUE, r, g) : r \in {"none", "top"},
                              g \in {None} \cup {Some(a) : a \in Answers}}

----------------------------------------------------------------------------
(* Read handlers *)

\* The messages with the roles the wrong way round.
ChatMessages_OddUser(history) ==
    [i \in 1..Len(history) |->
        [role |-> IF (i - 1) % 2 = 1 THEN "user" ELSE "assistant",
         content |-> history[i].content]]

\* main.py:207-213: the role is given by the position (enumerate counts from 0).
ChatMessages(history) ==
    [i \in 1..Len(history) |->
        [role |-> IF (i - 1) % 2 = 0 THEN "user" ELSE "assistant",
         content |-> history[i].content]]

\* document_handler.py:226-230
get_chat_history(conversation_chain) ==
    IF conversation_chain /= None THEN conversation_chain[1].memory ELSE <<>>

\* main.py:193-225
get_chat_history_endpoint(store) ==
    LET conversation_chain == store.conversation_chain
    IN IF conversation_chain = None
       THEN [Outcome EXCEPT !.status = 200, !.store = store, !.messages = <<>>]
       ELSE [Outcome EXCEPT !.status = 200, !.store = store,
                            !.messages = ChatMessages(get_chat_history(conversation_chain))]

\* `not summary`: None and the empty string alike.
\* main.py:164-191
get_summary(store) ==
    LET summary == store.summary
    IN IF summary = None \/ summary = Some(<<>>)
       THEN HttpError(store, 404, "No document loaded. Please upload a document first.")
       ELSE [Outcome EXCEPT !.status = 200, !.store = store,
                            !.summary = summary[1],
                            !.filename = IF store.filename = None THEN <<>>
                                         ELSE store.filename[1],
                            !.file_type = IF store.file_type = None THEN <<>>
                                          ELSE store.file_type[1]]

\* main.py:253-256: "db" is always a key of doc_store.
health_check(store) ==
    [Outcome EXCEPT !.status = 200, !.store = store,
                    !.flag = "db" \in DOMAIN store]

----------------------------------------------------------------------------
(* Suggested questions *)

Q_ABOUT == <<"What is this document about?">>
Q_TOPICS == <<"What are the main topics?">>
Q_TOPICS_DISCUSSED == <<"What are the main topics discussed?">>
Q_SUMMARIZE == <<"Can you summarize the key points?">>

\* document_handler.py:245
NO_SAMPLE_QUESTIONS == <<Q_ABOUT, Q_TOPICS, Q_SUMMARIZE>>

\* document_handler.py:283-287
FALLBACK_QUESTIONS == <<Q_ABOUT, Q_TOPICS_DISCUSSED, Q_SUMMARIZE>>

\* document_handler.py:268-272
PAD_QUESTIONS == <<<<"What are the main conclusions?">>,
                   <<"What are the key findings?">>,
                   <<"Can you explain the important concepts?">>>>

RECURSIVE SplitNL(_)
\* str.split('\n')
SplitNL(text) ==
    LET nls == {i \in 1..Len(text) : text[i] = NL}
    IN IF nls = {} THEN <<text>>
       ELSE LET i == CHOOSE n \in nls : \A m \in nls : n <= m
            IN <<SubSeq(text, 1, i - 1)>> \o SplitNL(SubSeq(text, i + 1, Len(text)))

RECURSIVE UsableLines(_)
\* [q.strip() for q in lines if q.strip()]
UsableLines(lines) ==
    IF lines = <<>> THEN <<>>
    ELSE IF Strip(Head(lines)) = <<>> THEN UsableLines(Tail(lines))
    ELSE <<Strip(Head(lines))>> \o UsableLines(Tail(lines))

\* The list left as the backend gave it.
PadQuestions_None(questions) == questions

\* The static questions put in front of the lines of the backend.
PadQuestions_Front(questions) ==
    IF Len(questions) < 3 THEN PAD_QUESTIONS \o questions ELSE questions

\* document_handler.py:267-272
PadQuestions(questions) ==
    IF Len(questions) < 3 THEN questions \o PAD_QUESTIONS ELSE questions

\* questions[:3]
FirstThree(questions) ==
    SubSeq(questions, 1, IF Len(questions) < 3 THEN Len(questions) ELSE 3)

\* document_handler.py:232-287.  db is an optional value; env.retr is what the
\* retriever does and env.resp what llm.predict returns (None: it raises).
get_suggested_questions(db, env) ==
    IF db = None THEN FALLBACK_QUESTIONS
    ELSE IF env.retr = "error" THEN FALLBACK_QUESTIONS
    ELSE IF Retrieve(db[1], env.retr) = <<>> THEN NO_SAMPLE_QUESTIONS
    ELSE IF env.resp = None THEN FALLBACK_QUESTIONS
    ELSE FirstThree(PadQuestions(UsableLines(SplitNL(env.resp[1]))))

\* The questions asked through the conversation chain, which records the turn.
get_suggested_questions_endpoint_ViaChain(store, env) ==
    IF store.db = None
    THEN HttpError(store, 404, "No document loaded. Please upload a document first.")
    ELSE [Outcome EXCEPT
            !.status = 200,
            !.store = [store EXCEPT !.conversation_chain =
                          Some([store.conversation_chain[1] EXCEPT
                                  !.memory = @ \o <<Human(<<>>), AI(<<>>)>>])],
            !.questions = get_suggested_questions(store.db, env),
            !.index = store.db, !.backend = Some(env)]

\* main.py:227-251
get_suggested_questions_endpoint(store, env) ==
    IF store.db = None
    THEN HttpError(store, 404, "No document loaded. Please upload a document first.")
    ELSE [Outcome EXCEPT
            !.status = 200, !.store = store,
            !.questions = get_suggested_questions(store.db, env),
            !.index = store.db, !.backend = Some(env)]

\* main.py:258-271
get_status(store) ==
    [Outcome EXCEPT !.status = 200, !.store = store,
                    !.flag = "db" \in DOMAIN store]

SuggestEnv(retr, resp) == [retr |-> retr, resp |-> resp]

\* The lines a response of the backend is made of.
ResponseLines == {<<"Q1">>, <<SP, "Q2", SP>>, <<SP>>, <<>>}

\* The responses of up to MaxLines lines.
Responses ==
    {JoinNL(ls) : ls \in UNION {[1..k -> ResponseLines] : k \in 0..MaxLines}}

SuggestEnvs ==
    {SuggestEnv("error", None), SuggestEnv("none", None), SuggestEnv("top", None)}
    \cup {SuggestEnv("top", Some(r)) : r \in Responses}

\* The outcomes tried on the endpoint: no sample chunk, a failing backend,
\* and a response of one usable line.
EndpointSuggestEnvs ==
    {SuggestEnv("none", None), SuggestEnv("top", None),
     SuggestEnv("top", Some(<<"Q1", NL, SP>>))}

\* The indexes get_suggested_questions is called with: none, an empty one,
\* and indexes of one and of two chunks.
DbInputs == {None, Some([id |-> 1, chunks |-> <<>>]),
             Some([id |-> 1, chunks |-> <<T_CATS>>]),
             Some([id |-> 2, chunks |-> <<T_CATS, T_DOGS>>])}

----------------------------------------------------------------------------
(* The state machine.                                                      *)
(*   doc_store  the global store of main.py                                *)
(*   reading    the uploads suspended in `await file.read()`               *)
(*   nuploads   the uploads that have read their file; the next one's      *)
(*              index is the object numbered nuploads + 1                  *)
(*   last       the last response sent: the handler, its request, its      *)
(*              outcome, and the store and the turns as they were before   *)
(*   turns      the (question, answer) pairs answered with 200 since the   *)
(*              last upload answered with 200                              *)
(*   indexes    the index objects built by the uploads answered with 200,  *)
(*              oldest first                                               *)

NoFile == File(<<>>, Bytes(0, "none", <<>>))

Response(op, file, question, out, pre, since) ==
    [op |-> op, file |-> file, question |-> question, out |-> out,
     pre |-> pre, since |-> since]

\* start_app.py:16-19, AppLauncher.__init__, before run().  A process is
\* "none" (the attribute is None), "running", "exited" (it stopped by itself)
\* or "terminated" (by the launcher).  ended: why run() was left.
NewLauncher ==
    [pc |-> "check_dependencies", backend_process |-> "none",
     frontend_process |-> "none", running |-> TRUE, attempt |-> 0, polls |-> 0,
     ended |-> "no"]

Init ==
    /\ launcher = NewLauncher
    /\ doc_store = EmptyStore
    /\ reading = {}
    /\ nuploads = 0
    /\ last = Response("init", NoFile, <<>>, Outcome, EmptyStore, <<>>)
    /\ turns = <<>>
    /\ indexes = <<>>

\* POST /upload up to the await: rejected, or suspended reading the file.
UploadBeginOf(files) ==
    \E f \in files :
        LET o == upload_validate(doc_store, f)
        IN /\ doc_store' = o.store
           /\ IF o.status = 100
              THEN /\ Cardinality(reading) < MaxInflight
                   /\ nuploads + Cardinality(reading) < MaxUploads
                   /\ f \notin reading
                   /\ reading' = reading \cup {f}
                   /\ UNCHANGED last
              ELSE /\ last' = Response("upload", f, <<>>, o, doc_store, turns)
                   /\ UNCHANGED reading
           /\ UNCHANGED <<nuploads, turns, indexes, launcher>>

UploadBegin == UploadBeginOf(Files)

\* POST /upload from the return of file.read() to the response.
UploadFinish ==
    \E f \in reading, env \in UploadEnvs :
        LET o == upload_finish(doc_store, f, env, nuploads + 1)
        IN /\ doc_store' = o.store
           /\ reading' = reading \ {f}
           /\ nuploads' = nuploads + 1
           /\ last' = Response("upload", f, <<>>, o, doc_store, turns)
           /\ turns' = IF o.status = 200 THEN <<>> ELSE turns
           /\ indexes' = IF o.status = 200 THEN Append(indexes, nuploads + 1)
                         ELSE indexes
           /\ UNCHANGED launcher

\* POST /ask
Ask ==
    \E q \in Questions, env \in AskEnvs :
        LET o == ask(doc_store, q, env)
        IN /\ Len(get_chat_history(doc_store.conversation_chain)) < 2 * MaxTurns
           /\ doc_store' = o.store
           /\ last' = Response("ask", NoFile, q, o, doc_store, turns)
           /\ turns' = IF o.status = 200 THEN Append(turns, <<q, o.answer>>)
                       ELSE turns
           /\ UNCHANGED <<reading, nuploads, indexes, launcher>>

Read(op, o) ==
    /\ doc_store' = o.store
    /\ last' = Response(op, NoFile, <<>>, o, doc_store, turns)
    /\ UNCHANGED <<reading, nuploads, turns, indexes, launcher>>

\* GET /chat-history
GetChatHistory == Read("chat-history", get_chat_history_endpoint(doc_store))

\* GET /summary
GetSummary == Read("summary", get_summary(doc_store))

\* GET /health
Health == Read("health", health_check(doc_store))

\* GET /suggested-questions
GetSuggestedQuestions ==
    \E env \in EndpointSuggestEnvs :
        Read("suggested-questions", get_suggested_questions_endpoint(doc_store, env))

\* GET /status
Status == Read("status", get_status(doc_store))

Next ==
    \/ UploadBegin
    \/ UploadFinish
    \/ Ask
    \/ GetChatHistory
    \/ GetSummary
    \/ Health
    \/ GetSuggestedQuestions
    \/ Status

Spec == Init /\ [][Next]_vars

\* POST /upload of every file of UploadFiles.
UploadBeginAny == UploadBeginOf(UploadFiles)

\* The store after upload 1, of b.TXT with every service working.
ReadyStore ==
    upload_finish(EmptyStore, File(<<"b", ".", "TXT">>, Bytes(2, "text", <<T_DOGS>>)),
                  UploadEnv(TRUE, TRUE, Some(S_OK), TRUE, "ok"), 1).store

FirstTurn == <<<<SP, "why">>, <<"yes">>>>

\* ReadyStore after one answered question.
ConversingStore ==
    ask(ReadyStore, FirstTurn[1], AskEnv(TRUE, "top", Some(FirstTurn[2]))).store

\* The server before any request, after one upload, and after one upload and
\* one question.
InitUpload ==
    /\ launcher = NewLauncher
    /\ reading = {}
    /\ last = Response("init", NoFile, <<>>, Outcome, EmptyStore, <<>>)
    /\ \/ doc_store = EmptyStore /\ nuploads = 0 /\ turns = <<>> /\ indexes = <<>>
       \/ doc_store = ReadyStore /\ nuploads = 1 /\ turns = <<>> /\ indexes = <<1>>
       \/ /\ doc_store = ConversingStore /\ nuploads = 1
          /\ turns = <<FirstTurn>> /\ indexes = <<1>>

NextUpload ==
    \/ UploadBeginAny
    \/ UploadFinish

SpecUpload == InitUpload /\ [][NextUpload]_vars

\* The byte strings of up to MaxBytes values of BYTES.
ByteStrings == UNION {[1..n -> BYTES] : n \in 0..MaxBytes}

\* extract_text_from_txt called once, on every byte string.
DecodeCall ==
    \E bs \in ByteStrings :
        LET t == extract_text_from_txt(Bytes(Len(bs), "raw", <<bs>>))
        IN /\ last.op = "init"
           /\ last' = Response("extract_text_from_txt",
                               File(<<>>, Bytes(Len(bs), "raw", <<bs>>)), <<>>,
                               [Outcome EXCEPT
                                   !.status = IF t.ok THEN 200 ELSE 500,
                                   !.detail = t.err, !.answer = t.text,
                                   !.store = doc_store],
                               doc_store, turns)
           /\ UNCHANGED <<doc_store, reading, nuploads, turns, indexes, launcher>>

NextDecode == DecodeCall

SpecDecode == Init /\ [][NextDecode]_vars

\* get_suggested_questions called once, on every index and backend outcome.
SuggestCall ==
    \E db \in DbInputs, env \in SuggestEnvs :
        /\ last.op = "init"
        /\ last' = Response("get_suggested_questions", NoFile, <<>>,
                            [Outcome EXCEPT
                                !.store = doc_store,
                                !.questions = get_suggested_questions(db, env),
                                !.index = db, !.backend = Some(env)],
                            doc_store, turns)
        /\ UNCHANGED <<doc_store, reading, nuploads, turns, indexes, launcher>>

NextSuggest == SuggestCall

SpecSuggest == Init /\ [][NextSuggest]_vars

----------------------------------------------------------------------------
(* The launcher (src/start_app.py) *)

\* start_frontend: max_retries = 3
max_retries == 3

LauncherStep(l) ==
    /\ launcher' = l
    /\ UNCHANGED <<doc_store, reading, nuploads, last, turns, indexes>>

\* run() is left: by a return, by sys.exit or by an exception.
Leave(l, why) == [l EXCEPT !.pc = "done", !.ended = why]

Terminate(process) == IF process = "running" THEN "terminated" ELSE process

\* start_app.py:195-207: terminate() on each process that was spawned.
cleanup(l) ==
    [l EXCEPT !.backend_process = Terminate(@),
              !.frontend_process = Terminate(@)]

\* start_app.py:215-217
CheckDependencies ==
    /\ launcher.pc = "check_dependencies"
    /\ \E ok \in BOOLEAN :
          LauncherStep(IF ok THEN [launcher EXCEPT !.pc = "start_backend"]
                       ELSE Leave(launcher, "dependencies"))

\* start_app.py:72-82, 99-101: Popen spawns the backend, or raises.
SpawnBackend ==
    /\ launcher.pc = "start_backend"
    /\ \E spawned \in BOOLEAN :
          LauncherStep(IF spawned
                       THEN [launcher EXCEPT !.backend_process = "running",
                                             !.pc = "backend_health"]
                       ELSE Leave(launcher, "backend not spawned"))

\* start_app.py:85-101, 220-222: the health check of the backend.  A response
\* needs the server running; "error" is any exception of requests.get (caught
\* at line 99).  On False, run() returns at line 222.
BackendHealth ==
    /\ launcher.pc = "backend_health"
    /\ \E r \in {"200", "not 200", "ImportError", "error"} :
          /\ r \in {"200", "not 200"} => launcher.backend_process = "running"
          /\ LauncherStep(IF r \in {"200", "ImportError"}
                          THEN [launcher EXCEPT !.pc = "start_frontend"]
                          ELSE Leave(launcher, "backend health check failed"))

\* start_app.py:107-118, 156-158, 225-228: Popen spawns the frontend, or
\* raises and run() cleans up and returns.
SpawnFrontend ==
    /\ launcher.pc = "start_frontend"
    /\ \E spawned \in BOOLEAN :
          LauncherStep(IF spawned
                       THEN [launcher EXCEPT !.frontend_process = "running",
                                             !.pc = "frontend_health",
                                             !.attempt = 0]
                       ELSE Leave(cleanup(launcher), "frontend not spawned"))

\* start_app.py:122-154, 225-228: one attempt of the frontend health check.
FrontendHealth ==
    /\ launcher.pc = "frontend_health"
    /\ \E r \in {"200", "not 200", "ConnectionError", "ImportError", "error"} :
          /\ r \in {"200", "not 200"} => launcher.frontend_process = "running"
          /\ LauncherStep(
                IF r \in {"200", "ImportError"}
                THEN [launcher EXCEPT !.pc = "monitor"]
                ELSE IF launcher.attempt < max_retries - 1
                THEN [launcher EXCEPT !.attempt = @ + 1]
                ELSE Leave(cleanup(launcher), "frontend health check failed"))

\* start_app.py:181-193, 239: one iteration of monitor_processes; when a
\* server has stopped the loop is left and run() returns.
MonitorPoll ==
    /\ launcher.pc = "monitor"
    /\ IF "exited" \in {launcher.backend_process, launcher.frontend_process}
       THEN LauncherStep(Leave([launcher EXCEPT !.running = FALSE],
                               "server stopped"))
       ELSE /\ launcher.polls < MaxPolls
            /\ LauncherStep([launcher EXCEPT !.polls = @ + 1])

\* start_app.py:234-248: SIGINT or SIGTERM once the handlers are installed.
Shutdown ==
    /\ launcher.pc = "monitor"
    /\ LauncherStep(Leave(cleanup([launcher EXCEPT !.running = FALSE]),
                          "shutdown signal"))

\* SIGINT before line 234: KeyboardInterrupt is no Exception, so no except
\* clause of start_backend or start_frontend catches it and it leaves run().
Interrupt ==
    /\ launcher.pc \in {"start_backend", "backend_health", "start_frontend",
                        "frontend_health"}
    /\ LauncherStep(Leave(launcher, "interrupt"))

\* A server process stops by itself while the launcher runs.
BackendExits ==
    /\ launcher.pc /= "done"
    /\ launcher.backend_process = "running"
    /\ LauncherStep([launcher EXCEPT !.backend_process = "exited"])

FrontendExits ==
    /\ launcher.pc /= "done"
    /\ launcher.frontend_process = "running"
    /\ LauncherStep([launcher EXCEPT !.frontend_process = "exited"])

NextLauncher ==
    \/ CheckDependencies
    \/ SpawnBackend
    \/ BackendHealth
    \/ SpawnFrontend
    \/ FrontendHealth
    \/ MonitorPoll
    \/ Shutdown
    \/ Interrupt
    \/ BackendExits
    \/ FrontendExits

SpecLauncher == Init /\ [][NextLauncher]_vars

----------------------------------------------------------------------------
(* The session states of the specification, read off the store *)

SessionState(store) ==
    IF store.db = None THEN "EMPTY"
    ELSE IF get_chat_history(store.conversation_chain) = <<>> THEN "READY"
    ELSE "CONVERSING"

\* The index object built by the most recent upload answered with 200 (0: none).
Current == IF indexes = <<>> THEN 0 ELSE indexes[Len(indexes)]

\* The messages of a sequence of (question, answer) turns.
RECURSIVE TurnMessages(_)
TurnMessages(ts) ==
    IF ts = <<>> THEN <<>>
    ELSE <<Human(ts[1][1]), AI(ts[1][2])>> \o TurnMessages(Tail(ts))

\* A string that is empty or holds whitespace only.
OnlyWhitespace(s) == \A i \in 1..Len(s) : s[i] \in WS

Memory(store) == get_chat_history(store.conversation_chain)

----------------------------------------------------------------------------
(* Claims *)

\* C1: an upload that fails at any step (filename, extension or size
\* validation, extraction, chunking, index build, chain creation) leaves the
\* store, with the index, the chain and its memory, the summary, the filename
\* and the file type, exactly as it was before the upload.
C1_FailedUploadLeavesSession ==
    (last.op = "upload" /\ last.out.status /= 200)
        => /\ doc_store = last.pre
           /\ turns = last.since

\* An upload fails at chain creation over a session that is CONVERSING.
C1_Witness ==
    /\ last.op = "upload"
    /\ last.out.status = 500
    /\ last.out.detail = "Error creating conversation chain"
    /\ SessionState(last.pre) = "CONVERSING"
    /\ SessionState(doc_store) = "CONVERSING"

\* C2: an upload answered with 200 leaves the session READY, from any state:
\* the memory is empty, and the index, the chain's retriever, the summary, the
\* filename and the file type are those of the upload just made.
C2_SuccessfulUploadResets ==
    (last.op = "upload" /\ last.out.status = 200)
        => /\ SessionState(doc_store) = "READY"
           /\ doc_store.conversation_chain /= None
           /\ doc_store.conversation_chain[1].memory = <<>>
           /\ doc_store.db[1].id = nuploads
           /\ \A i \in 1..Len(doc_store.db[1].chunks) :
                 \E j \in 1..Len(last.file.bytes.blocks) :
                     doc_store.db[1].chunks[i] = Strip(last.file.bytes.blocks[j])
           /\ doc_store.conversation_chain[1].retriever = doc_store.db[1]
           /\ doc_store.summary = Some(last.out.summary)
           /\ doc_store.filename = Some(last.file.filename)
           /\ doc_store.file_type = Some(Upper(SplitExt(Lower(last.file.filename))))

\* An upload succeeds over a session that is CONVERSING on another document.
C2_Witness ==
    /\ last.op = "upload"
    /\ last.out.status = 200
    /\ SessionState(last.pre) = "CONVERSING"
    /\ last.pre.filename /= doc_store.filename
    /\ SessionState(doc_store) = "READY"

\* C3: an ask retrieves only from the index built by the most recent upload
\* answered with 200, the chunks it retrieves are chunks of that index, and the
\* history it is conditioned on is the turns answered since that upload.
C3_AskUsesLatestUploadOnly ==
    (last.op = "ask" /\ last.out.calls /= <<>>)
        => /\ last.out.retrFrom \in {0, Current}
           /\ doc_store.db /= None
           /\ doc_store.db[1].id = Current
           /\ last.out.retrieved /= None =>
                 \A i \in 1..Len(last.out.retrieved[1]) :
                     \E j \in 1..Len(doc_store.db[1].chunks) :
                         last.out.retrieved[1][i] = doc_store.db[1].chunks[j]
           /\ last.out.history = TurnMessages(last.since)

\* After a second successful upload, a follow-up question is answered from
\* retrieved chunks.
C3_Witness ==
    /\ Len(indexes) >= 2
    /\ last.op = "ask"
    /\ last.out.status = 200
    /\ last.out.retrFrom = indexes[2]
    /\ last.out.retrieved /= None
    /\ last.out.retrieved /= Some(<<>>)
    /\ last.out.history /= <<>>

\* C4: with N asks answered 200 since the last upload answered 200, the chat
\* history holds 2N messages, in order: at position 2k-1 the question of turn
\* k as "user", at position 2k its answer as "assistant".
C4_HistoryIsTurns ==
    LET msgs == get_chat_history_endpoint(doc_store).messages
    IN /\ Len(msgs) = 2 * Len(turns)
       /\ \A k \in 1..Len(turns) :
             /\ msgs[2 * k - 1] = [role |-> "user", content |-> turns[k][1]]
             /\ msgs[2 * k] = [role |-> "assistant", content |-> turns[k][2]]
       /\ last.op = "chat-history" => last.out.messages = msgs

\* The history is read after two turns.
C4_Witness ==
    /\ last.op = "chat-history"
    /\ Len(turns) = 2
    /\ Len(last.out.messages) = 4
    /\ last.out.messages[3].role = "user"

\* C5: an ask made before any successful upload fails with "no document
\* loaded", whatever the question, blank ones included.
C5_AskBeforeUploadIsNoDocument ==
    (last.op = "ask" /\ indexes = <<>>) => last.out.status = 404

\* C6: with a document loaded, an ask whose question is empty or whitespace
\* only fails with "question cannot be empty", calls neither the retriever nor
\* the generation backend, and leaves the store unchanged.
C6_BlankQuestionRejected ==
    (last.op = "ask" /\ last.pre.db /= None /\ OnlyWhitespace(last.question))
        => /\ last.out.status = 400
           /\ last.out.detail = "Question cannot be empty"
           /\ last.out.calls = <<>>
           /\ doc_store = last.pre
           /\ turns = last.since

\* A whitespace-only question is asked in a conversation.
C6_Witness ==
    /\ last.op = "ask"
    /\ last.question /= <<>>
    /\ OnlyWhitespace(last.question)
    /\ SessionState(last.pre) = "CONVERSING"
    /\ last.out.status = 400

\* C7: the index and the chain an ask reads from the store are written by one
\* and the same upload, also while other uploads are suspended: the chain is
\* set exactly when the index is, and its retriever is over that index.
C7_NoTornSession ==
    /\ (doc_store.db = None) <=> (doc_store.conversation_chain = None)
    /\ doc_store.db /= None =>
           doc_store.conversation_chain[1].retriever = doc_store.db[1]
    /\ (last.op = "ask" /\ last.out.status \notin {400, 404}) =>
           /\ last.pre.db /= None
           /\ last.pre.conversation_chain /= None
           /\ last.pre.conversation_chain[1].retriever = last.pre.db[1]
           /\ last.out.retrFrom \in {0, last.pre.db[1].id}

\* An ask is answered from the current index while another upload is suspended
\* reading its file.
C7_Witness ==
    /\ last.op = "ask"
    /\ last.out.status = 200
    /\ reading /= {}
    /\ Len(indexes) >= 1
    /\ last.out.retrFrom = Current
    /\ last.pre.conversation_chain[1].retriever.id = Current

\* C9: an ask during which a call of the generation backend fails is answered
\* with status 500, which is neither the 404 of "no document" nor the 400 of
\* "empty question", carries no answer, and appends no turn to the memory.
C9_GenerationFailurePropagates ==
    (last.op = "ask" /\ last.out.genFailed)
        => /\ last.out.status = 500
           /\ last.out.detail = "generation error"
           /\ last.out.answer = <<>>
           /\ Memory(doc_store) = Memory(last.pre)
           /\ doc_store = last.pre
           /\ turns = last.since

\* The generation of the answer fails in a conversation that has a turn.
C9_Witness ==
    /\ last.op = "ask"
    /\ last.out.genFailed
    /\ last.out.retrieved /= None
    /\ Memory(last.pre) /= <<>>

\* C10: when the retrieval of an ask returns no chunk, the answer the caller
\* gets is the fixed "no relevant information" string and the generation
\* backend is not called after the retrieval.
C10_NoChunksGivesFallback ==
    (last.op = "ask" /\ last.out.retrieved = Some(<<>>))
        => \/ last.out.status /= 200
           \/ /\ last.out.answer = A_NO_RELEVANT
              /\ last.out.calls[Len(last.out.calls)] /= "generate"

\* C11: an ask never answers with an empty or whitespace-only string: when the
\* generation backend returns one, the caller gets the fixed "could not
\* generate a meaningful answer" message, on every path.
C11_BlankGenerationGivesFallback ==
    (last.op = "ask" /\ last.out.status = 200)
        => ~OnlyWhitespace(last.out.answer)

\* C12: when the summarization backend fails in an upload whose extraction,
\* chunking and index build succeed (and whose chain is created), the upload
\* is answered with 200, the session is READY on the new index with an empty
\* memory, and the stored summary is the string describing the failure.
C12_SummaryFailureDoesNotAbort ==
    (last.op = "upload" /\ last.out.indexed /\ last.out.sumFailed
        /\ last.out.detail /= "Error creating conversation chain")
        => /\ last.out.status = 200
           /\ SessionState(doc_store) = "READY"
           /\ doc_store.db /= None
           /\ doc_store.db[1].id = nuploads
           /\ Memory(doc_store) = <<>>
           /\ doc_store.summary = Some(S_FAILED)
           /\ last.out.summary = S_FAILED

\* The summarization fails in an upload that replaces a conversation.
C12_Witness ==
    /\ last.op = "upload"
    /\ last.out.sumFailed
    /\ last.out.status = 200
    /\ SessionState(last.pre) = "CONVERSING"
    /\ doc_store.summary = Some(S_FAILED)

\* C12 as the specification states it, without the condition on the chain: a
\* failing summarization never keeps an upload whose index was built from
\* succeeding.
C12_AsStated ==
    (last.op = "upload" /\ last.out.indexed /\ last.out.sumFailed)
        => /\ last.out.status = 200
           /\ doc_store.summary = Some(S_FAILED)

\* C13: for every index (none and an empty one included) and every outcome of
\* the backend (an error, or a response of any lines, blank or not),
\* get_suggested_questions returns a list of exactly 3 non-empty strings.
C13_ThreeQuestions ==
    last.op = "get_suggested_questions"
        => /\ Len(last.out.questions) = 3
           /\ \A i \in 1..Len(last.out.questions) :
                 /\ last.out.questions[i] /= <<>>
                 /\ ~OnlyWhitespace(last.out.questions[i])

\* The backend answers one usable line among blank ones: two are padded.
C13_Witness ==
    /\ last.op = "get_suggested_questions"
    /\ last.out.index /= None
    /\ last.out.backend[1].resp = Some(<<SP, NL, SP, "Q2", SP, NL>>)
    /\ last.out.questions = <<<<"Q2">>, PAD_QUESTIONS[1], PAD_QUESTIONS[2]>>

\* C14: on every failure (no index, no sample chunk, a failing retriever or
\* backend) get_suggested_questions returns one and the same fallback list.
C14_OneFallbackList ==
    (/\ last.op = "get_suggested_questions"
     /\ \/ last.out.index = None
        \/ last.out.backend[1].retr \in {"error", "none"}
        \/ last.out.index[1].chunks = <<>>
        \/ last.out.backend[1].resp = None)
        => last.out.questions = FALLBACK_QUESTIONS

\* C15: an upload of a pdf, txt or docx document whose text is empty or only
\* whitespace, with every service working, fails with the error of a document
\* without text and leaves the session as it was.
C15_BlankDocumentIsEmptyContent ==
    (/\ last.op = "upload"
     /\ last.out.backend = Some(UploadEnv(TRUE, TRUE, Some(S_OK), TRUE, "ok"))
     /\ SplitExt(Lower(last.file.filename)) \in {EXT_PDF, EXT_TXT, EXT_DOCX}
     /\ last.file.bytes.kind \in {"pdf", "text", "docx"}
     /\ \A i \in 1..Len(last.file.bytes.blocks) :
           OnlyWhitespace(last.file.bytes.blocks[i]))
        => /\ last.out.status /= 200
           /\ last.out.detail \in EMPTY_CONTENT
           /\ doc_store = last.pre

\* C16: when process_document returns from a PDF, normally or by an exception
\* raised after the temporary file was created, and unlinking works, the
\* temporary file no longer exists.
C16_TempFileDeleted ==
    (/\ last.op = "upload"
     /\ last.out.backend /= None
     /\ SplitExt(Lower(last.file.filename)) = EXT_PDF
     /\ \A i \in 1..Len(last.out.backend) :
           last.out.backend[i].disk /= "unlink_fails")
        => last.out.temp = "deleted"

\* C17: an upload with no filename, with an extension that is not supported
\* (whatever its case) or with more than 5*1024*1024 bytes is answered 400 or
\* 413 without any call of the core and leaves the session as it was; a file
\* of exactly 5*1024*1024 bytes with a supported name reaches the core.
C17_RejectedBeforeCore ==
    last.op = "upload"
        => LET name == last.file.filename
               named == name /= <<>> /\ SplitExt(Lower(name)) \in SUPPORTED_EXTENSIONS
               size == last.file.bytes.size
           IN /\ (~named \/ size > 5 * 1024 * 1024)
                    => /\ last.out.status \in {400, 413}
                       /\ last.out.calls = <<>>
                       /\ doc_store = last.pre
                       /\ turns = last.since
              /\ (named /\ size = 5 * 1024 * 1024)
                    => /\ last.out.status /= 413
                       /\ last.out.calls /= <<>>

\* An oversized file is rejected while a conversation is going on.
C17_Witness ==
    /\ last.op = "upload"
    /\ last.file.bytes.size > 5 * 1024 * 1024
    /\ last.out.status = 413
    /\ last.out.calls = <<>>
    /\ SessionState(last.pre) = "CONVERSING"
    /\ doc_store = last.pre

ReadOps == {"summary", "chat-history", "suggested-questions", "health", "status"}

\* C18: after a read operation (summary, chat history, suggested questions,
\* health, status), answered with success or with an error, the index, the
\* memory, the summary, the filename and the file type are as before it.
C18_ReadsChangeNothing ==
    last.op \in ReadOps
        => /\ doc_store.db = last.pre.db
           /\ Memory(doc_store) = Memory(last.pre)
           /\ doc_store.conversation_chain = last.pre.conversation_chain
           /\ doc_store.summary = last.pre.summary
           /\ doc_store.filename = last.pre.filename
           /\ doc_store.file_type = last.pre.file_type
           /\ turns = last.since

\* Suggested questions are served while a conversation is going on.
C18_Witness ==
    /\ last.op = "suggested-questions"
    /\ last.out.status = 200
    /\ Len(last.out.questions) = 3
    /\ SessionState(doc_store) = "CONVERSING"

\* C19: an ask answered with 200 appends the turn (question, answer) at the
\* end of the memory and changes nothing else: index, summary, filename and
\* file type are as before, and the session is CONVERSING.
C19_AskAppendsOneTurn ==
    (last.op = "ask" /\ last.out.status = 200)
        => /\ Memory(doc_store) =
                 Memory(last.pre) \o <<Human(last.question), AI(last.out.answer)>>
           /\ doc_store.db = last.pre.db
           /\ doc_store.summary = last.pre.summary
           /\ doc_store.filename = last.pre.filename
           /\ doc_store.file_type = last.pre.file_type
           /\ SessionState(doc_store) = "CONVERSING"

\* A second question is answered: the memory holds both turns.
C19_Witness ==
    /\ last.op = "ask"
    /\ last.out.status = 200
    /\ SessionState(last.pre) = "CONVERSING"
    /\ Len(Memory(doc_store)) = 4

\* C20: once an upload has succeeded the session is never EMPTY again: the
\* index in the store is the one of the latest successful upload.
C20_NeverEmptyAgain ==
    indexes /= <<>>
        => /\ SessionState(doc_store) /= "EMPTY"
           /\ doc_store.db /= None
           /\ \A i \in 1..Len(doc_store.db) : doc_store.db[i].id = Current

\* An upload fails after a conversation: the document stays loaded.
C20_Witness ==
    /\ indexes /= <<>>
    /\ last.op = "upload"
    /\ last.out.status = 500
    /\ SessionState(last.pre) = "CONVERSING"
    /\ SessionState(doc_store) = "CONVERSING"

\* C21: an upload named .doc (whatever the case) of at most MAX_FILE_SIZE
\* bytes, whatever the bytes, the services and the session, fails in
\* process_document with the error of the unsupported DOC format, before any
\* other call of the core, and leaves the session as it was.
C21_DocAlwaysUnsupported ==
    (/\ last.op = "upload"
     /\ SplitExt(Lower(last.file.filename)) = EXT_DOC
     /\ last.file.bytes.size <= 5 * 1024 * 1024)
        => /\ last.out.status = 500
           /\ last.out.detail = DOC_NOT_SUPPORTED
           /\ last.out.calls = <<"process_document">>
           /\ doc_store = last.pre
           /\ turns = last.since

\* A DOCX archive named .DOC is refused while a conversation is going on.
C21_Witness ==
    /\ last.op = "upload"
    /\ last.file.filename = <<"x", ".", "DOC">>
    /\ last.file.bytes.kind = "docx"
    /\ last.out.detail = DOC_NOT_SUPPORTED
    /\ SessionState(last.pre) = "CONVERSING"
    /\ doc_store = last.pre

\* C21 as the specification states it, for any file bytes: every upload named
\* .doc fails with the error of the unsupported DOC format.
C21_AsStated ==
    (last.op = "upload" /\ SplitExt(Lower(last.file.filename)) = EXT_DOC)
        => last.out.detail = DOC_NOT_SUPPORTED

\* C22: in every reachable state the index is set exactly when the chain is;
\* when they are set, the chain's retriever is over that index and the index,
\* the summary, the filename and the file type are those of the latest upload
\* answered with 200 (they are written together by it and by nothing else);
\* an ask on a loaded document goes through the chain and, answered with 200,
\* records its turn.
C22_SessionFieldsConsistent ==
    /\ (doc_store.db = None) <=> (doc_store.conversation_chain = None)
    /\ (doc_store.db = None) <=> (indexes = <<>>)
    /\ doc_store.db /= None =>
           /\ \A i \in 1..Len(doc_store.db) : doc_store.db[i].id = Current
           /\ \A i \in 1..Len(doc_store.conversation_chain) :
                 doc_store.conversation_chain[i].retriever = doc_store.db[1]
           /\ doc_store.summary /= None
           /\ doc_store.filename /= None
           /\ doc_store.file_type /= None
    /\ (last.op = "upload" /\ last.out.status = 200) =>
           /\ doc_store.db /= None
           /\ \A i \in 1..Len(doc_store.db) : doc_store.db[i].id = nuploads
           /\ doc_store.summary = Some(last.out.summary)
           /\ doc_store.filename = Some(last.file.filename)
           /\ doc_store.file_type = Some(Upper(SplitExt(Lower(last.file.filename))))
    /\ ~(last.op = "upload" /\ last.out.status = 200) =>
           /\ doc_store.db = last.pre.db
           /\ doc_store.summary = last.pre.summary
           /\ doc_store.filename = last.pre.filename
           /\ doc_store.file_type = last.pre.file_type
    /\ (last.op = "ask" /\ last.pre.db /= None) =>
           /\ last.pre.conversation_chain /= None
           /\ last.out.status = 200 =>
                 /\ last.out.history = Memory(last.pre)
                 /\ Len(Memory(doc_store)) = Len(Memory(last.pre)) + 2

\* A second document replaces the first one, of another name, in the middle of
\* a conversation.
C22_Witness ==
    /\ last.op = "upload"
    /\ last.out.status = 200
    /\ Len(indexes) = 2
    /\ SessionState(last.pre) = "CONVERSING"
    /\ last.pre.filename /= doc_store.filename
    /\ doc_store.filename = Some(last.file.filename)

\* C23: health and status report documents_loaded as true exactly when a
\* document is loaded: false in EMPTY, true after a successful upload.
C23_DocumentsLoadedIsTruthful ==
    last.op \in {"health", "status"}
        => (last.out.flag <=> SessionState(last.pre) /= "EMPTY")

\* C24: extract_text_from_txt returns what the first of utf-8, latin-1 and
\* cp1252, in that order, decodes the bytes to, and raises only when none of
\* the three decodes them.
C24_FirstDecoderWins ==
    last.op = "extract_text_from_txt"
        => LET bs == last.file.bytes.blocks[1]
               u == DecodeUtf8(bs)
               l == DecodeLatin1(bs)
               c == DecodeCp1252(bs)
               first == IF u /= None THEN u ELSE IF l /= None THEN l ELSE c
           IN IF first = None
              THEN last.out.status = 500
              ELSE /\ last.out.status = 200
                   /\ \A i \in 1..Len(first) : last.out.answer = first[i]

\* utf-8 decodes the 2-byte sequence 0xC3 0xA9 to U+00E9, which latin-1 would
\* decode to two characters; and where utf-8 fails, latin-1 decodes.
C24_Witness ==
    /\ last.op = "extract_text_from_txt"
    /\ last.file.bytes.blocks = <<<<65, 195, 169>>>>
    /\ last.out.status = 200
    /\ last.out.answer = <<65, 233>>
    /\ DecodeUtf8(<<233>>) = None
    /\ extract_text_from_txt(Bytes(1, "raw", <<<<233>>>>)).text = <<233>>

\* C25: when the backend answers with k usable lines, the result is the first
\* 3 of them if k >= 3, and else the k lines followed by the first 3 - k
\* questions of the static pad list.
C25_LinesThenPad ==
    (/\ last.op = "get_suggested_questions"
     /\ last.out.index /= None
     /\ \A i \in 1..Len(last.out.index) : last.out.index[i].chunks /= <<>>
     /\ \A i \in 1..Len(last.out.backend) :
           /\ last.out.backend[i].retr = "top"
           /\ last.out.backend[i].resp /= None)
        => LET usable == UsableLines(SplitNL(last.out.backend[1].resp[1]))
               k == Len(usable)
               questions == last.out.questions
           IN /\ Len(questions) = 3
              /\ \A i \in 1..Len(questions) :
                    questions[i] = IF i <= k THEN usable[i] ELSE PAD_QUESTIONS[i - k]

\* Two usable lines around a blank one: one static question is added.
C25_Witness ==
    /\ last.op = "get_suggested_questions"
    /\ last.out.index /= None
    /\ last.out.backend[1].resp = Some(<<"Q1", NL, SP, NL, SP, "Q2", SP>>)
    /\ last.out.questions = <<<<"Q1">>, <<"Q2">>, PAD_QUESTIONS[1]>>

\* C26: the summary operation answers "no document loaded" only in EMPTY:
\* with a document loaded it answers 200 with the summary the upload stored,
\* an empty one included, and the filename and file type of that upload.
C26_SummaryOfLoadedDocument ==
    last.op = "summary"
        => IF SessionState(last.pre) = "EMPTY"
           THEN last.out.status = 404
           ELSE /\ last.out.status = 200
                /\ Some(last.out.summary) = last.pre.summary
                /\ Some(last.out.filename) = last.pre.filename
                /\ Some(last.out.file_type) = last.pre.file_type

\* C27: when the launcher's run ends because the backend health check failed
\* after the backend was spawned, because the frontend failed to start,
\* because a monitored server stopped, or by a shutdown signal, no server
\* process it spawned is still running.
C27_NoServerLeftRunning ==
    (/\ launcher.pc = "done"
     /\ launcher.ended \in {"backend health check failed", "frontend not spawned",
                            "frontend health check failed", "server stopped",
                            "shutdown signal"})
        => /\ launcher.backend_process /= "running"
           /\ launcher.frontend_process /= "running"

====
